---- MODULE Spec2Model ----
(***************************************************************************)
(* Model of the remote-job API client of the CPLUS plugin                  *)
(* (src/src/cplus_plugin/api/request.py): the HTTP transport of            *)
(* BaseApiClient, the part uploader upload_file_part, the status poller    *)
(* CplusApiPooling and the token handling of CplusApiRequest.              *)
(*                                                                         *)
(* Three specifications share the variables:                               *)
(*   Spec        the poller CplusApiPooling.results()                      *)
(*   SpecUpload  BaseApiClient.upload_file_part()                          *)
(*   SpecAuth    CplusApiRequest.api_token / get / post / put              *)
(* A specification leaves the variables of the other two at their initial  *)
(* values.                                                                 *)
(***************************************************************************)
EXTENDS Integers, Sequences, FiniteSets, TLC

VARIABLES
    \* ---- CplusApiPooling (request.py:222-296) ----
    context,              \* the object given as context: "client" or "stub"
    limit,                \* self.limit
    on_response_fetched,  \* TRUE when a callback was given
    current_repeat,       \* self.current_repeat
    cancelled,            \* self.cancelled
    stack,                \* call sites of the active results() frames
    pc,                   \* position of the innermost results() frame
    outcome,              \* how the last results() call of the caller ended
    queries,              \* number of __call_api invocations so far
    server,               \* the status endpoint's answer to each invocation
    fetched,              \* arguments given to on_response_fetched, in order
    sent,                 \* requests handed to the network access manager
    calls,                \* results() calls made by the caller
    at_call,              \* cancelled, current_repeat, queries, sent at the call
    cancel_pc,            \* pc at the moment cancelled was set ("never")
    \* ---- BaseApiClient.upload_file_part (request.py:185-219) ----
    max_retries,          \* argument max_retries
    file_part_number,     \* argument file_part_number
    retries,              \* local retries
    u_pc,                 \* "idle", "put" (PUT in flight), "sleep", "done"
    puts,                 \* PUT requests issued
    put_log,              \* outcome of every PUT, in order: "ok" or the error
    sleeps,               \* the delays given to time.sleep, in order
    last_response,        \* value of the last _do_upload_file_part call
    u_outcome,            \* how upload_file_part ended
    \* ---- CplusApiRequest token handling (request.py:453-509) ----
    now,                  \* datetime.datetime.now(), in hours
    auth_config,          \* TRUE when username and password are configured
    client,               \* the CplusApiRequest object and its call in progress
    a_call,               \* the caller's last call and the state it was made in
    threads               \* the calls of concurrent callers sharing the client

pollvars == <<context, limit, on_response_fetched, current_repeat, cancelled,
              stack, pc, outcome, queries, server, fetched, sent, calls,
              at_call, cancel_pc>>
uploadvars == <<max_retries, file_part_number, retries, u_pc, puts, put_log,
                sleeps, last_response, u_outcome>>
authvars == <<now, auth_config, client, a_call, threads>>
vars == <<pollvars, uploadvars, authvars>>

(***************************************************************************)
(* Bounds of the model.                                                    *)
(***************************************************************************)
MaxLimit == 3        \* largest max_limit given to CplusApiPooling
MaxQueries == 3      \* cap on __call_api invocations (limit -1 is unbounded)
MaxRepeat == 6       \* cap on current_repeat
MaxCalls == 2        \* results() calls made on one session
MaxRetriesArg == 5   \* largest max_retries given to upload_file_part
MaxPuts == 7         \* cap on the PUTs of one upload_file_part call
MaxTime == 24        \* last instant of the clock (hours)
MaxAccess == 2       \* cap on the requests and on the logins sent in SpecAuth
MaxThreads == 2      \* concurrent callers sharing one CplusApiRequest
MaxParts == 3        \* largest file given to start_upload_layer, in chunks

(***************************************************************************)
(* Program constants.                                                      *)
(***************************************************************************)
JOB_COMPLETED_STATUS == "Completed"
JOB_CANCELLED_STATUS == "Cancelled"
JOB_STOPPED_STATUS == "Stopped"
FINAL_STATUS_LIST ==
    {JOB_COMPLETED_STATUS, JOB_CANCELLED_STATUS, JOB_STOPPED_STATUS}
UNBOUNDED == -1
DefaultMaxRetries == 5
TokenMargin == 1     \* timedelta(hours=1)
TokenLifetime == 24  \* timedelta(days=1)
DEFAULT_LIMIT == 3600
DEFAULT_INTERVAL == 1
CHUNK_SIZE == 100 * 1024 * 1024

None == "None"

(***************************************************************************)
(* JSON documents are sets of <<key, value>> pairs; {} is the empty dict.  *)
(***************************************************************************)
EmptyDoc == {}
HasKey(doc, key) == \E p \in doc : p[1] = key
DictGet(doc, key, default) ==
    IF HasKey(doc, key) THEN (CHOOSE p \in doc : p[1] = key)[2] ELSE default
StatusDoc(s) == {<<"status", s>>}

(***************************************************************************)
(* Header names are sequences of characters: _set_headers depends on their *)
(* length.  A header set is a set of [key, value] records (a dict).        *)
(***************************************************************************)
ContentTypeKey == <<"C","o","n","t","e","n","t","-","T","y","p","e">>
AuthorizationKey == <<"A","u","t","h","o","r","i","z","a","t","i","o","n">>
TEKey == <<"T","E">>
JsonContentType == [key |-> ContentTypeKey, value |-> "application/json"]

\* BaseApiClient._default_headers
BaseDefaultHeaders == {JsonContentType}

\* _set_headers: "for key, value in headers" iterates the keys of the dict
\* and unpacks each key string into two names, which raises ValueError for
\* a key that is not two characters long.
SetHeadersRaises(headers) == \E h \in headers : Len(h.key) # 2

\* the raw headers _set_headers puts on the request when it does not raise:
\* the two characters of each key, as name and value
RawHeaders(headers) == {<<h.key[1], h.key[2]>> : h \in headers}

(***************************************************************************)
(* A reply of the network: a transport error with its error string, or a   *)
(* status line (0 when the attribute is absent) and a body.  A body is the *)
(* text of a JSON document or a text that is not JSON.                     *)
(***************************************************************************)
JsonBody(doc) == [json |-> TRUE, doc |-> doc]
NetFailure(reason) ==
    [err |-> TRUE, reason |-> reason, status |-> 0, body |-> JsonBody(EmptyDoc)]
NetError == NetFailure("Connection refused")
HttpReply(status, doc) ==
    [err |-> FALSE, reason |-> "", status |-> status, body |-> JsonBody(doc)]

\* _read_json_response: json.load is given the decoded text (a str), which
\* has no read(): the AttributeError is caught and {} is returned, whatever
\* the body.
ReadJsonResponse(body) == EmptyDoc

\* result of a call: a raised exception or the pair (response, status_code)
Raised(exc) ==
    [kind |-> "raise", exc |-> exc, response |-> EmptyDoc, status_code |-> 0]
Returned(response, status_code) ==
    [kind |-> "ok", exc |-> "", response |-> response, status_code |-> status_code]

\* _handle_response without the raise of line 113
HandleResponse_SwallowError(reply) ==
    Returned(IF reply.err THEN EmptyDoc ELSE ReadJsonResponse(reply.body),
             IF reply.status = 0 THEN 500 ELSE reply.status)

\* _handle_response
HandleResponse(reply) ==
    IF reply.err
    THEN Raised("Network error: " \o reply.reason)
    ELSE Returned(ReadJsonResponse(reply.body),
                  IF reply.status = 0 THEN 500 ELSE reply.status)

\* BaseApiClient.get / post / put, up to the wait for the reply:
\* the headers used and whether the request reaches the network
EffectiveHeaders(headers, default) == IF headers = {} THEN default ELSE headers

\* BaseApiClient.get(url) of a client whose default headers are `default',
\* the network answering `reply' if the request is sent
ClientGet(default, reply) ==
    IF SetHeadersRaises(EffectiveHeaders({}, default))
    THEN [result |-> Raised("ValueError"), sent |-> FALSE]
    ELSE [result |-> HandleResponse(reply), sent |-> TRUE]

(***************************************************************************)
(* CplusApiPooling                                                         *)
(***************************************************************************)
\* what the status endpoint (or the stub standing for it) may answer
PollReplies ==
    {NetError, HttpReply(500, EmptyDoc), HttpReply(200, EmptyDoc)}
    \cup {HttpReply(200, StatusDoc(s)) :
            s \in {"Pending"} \cup FINAL_STATUS_LIST}

\* __call_api: self.context.get(self.url).  A stub context hands back the
\* endpoint's answer as (document, status) or raises; the client goes
\* through BaseApiClient.get.
CallApi(ctx, reply) ==
    IF ctx = "stub"
    THEN [result |-> IF reply.err THEN Raised("stub error")
                     ELSE Returned(reply.body.doc, reply.status),
          sent |-> FALSE]
    ELSE ClientGet(BaseDefaultHeaders, reply)

NoOutcome == [kind |-> "none", response |-> EmptyDoc, exc |-> ""]
ReturnOutcome(doc) == [kind |-> "return", response |-> doc, exc |-> ""]
RaiseOutcome(exc) == [kind |-> "raise", response |-> EmptyDoc, exc |-> exc]
CancelledResponse == StatusDoc(JOB_CANCELLED_STATUS)
TimeoutError == "Request Timeout when fetching status!"

\* the limit test with > for >=
LimitReached_Strict(lim, repeat) == lim # UNBOUNDED /\ repeat > lim

\* line 280
LimitReached(lim, repeat) == lim # UNBOUNDED /\ repeat >= lim

\* line 289
IsFinal(response) == DictGet(response, "status", None) \in FINAL_STATUS_LIST

\* CplusApiPooling.__init__: max_limit or DEFAULT_LIMIT is drawn from the
\* bounded set of limits
InitPoll ==
    /\ context \in {"client", "stub"}
    /\ limit \in {UNBOUNDED} \cup (1..MaxLimit)
    /\ on_response_fetched \in BOOLEAN
    /\ current_repeat = 0
    /\ cancelled = FALSE
    /\ stack = <<>>
    /\ pc = "idle"
    /\ outcome = NoOutcome
    /\ queries = 0
    /\ server = <<>>
    /\ fetched = <<>>
    /\ sent = 0
    /\ calls = 0
    /\ at_call = [cancelled |-> FALSE, repeat |-> 0, queries |-> 0, sent |-> 0]
    /\ cancel_pc = "never"

\* the caller calls results()
CallResults ==
    /\ UNCHANGED <<uploadvars, authvars>>
    /\ pc \in {"idle", "done"}
    /\ calls < MaxCalls
    /\ calls' = calls + 1
    /\ stack' = <<"caller">>
    /\ pc' = "entry"
    /\ outcome' = NoOutcome
    /\ at_call' = [cancelled |-> cancelled, repeat |-> current_repeat,
                   queries |-> queries, sent |-> sent]
    /\ UNCHANGED <<context, limit, on_response_fetched, current_repeat,
                   cancelled, queries, server, fetched, sent, cancel_pc>>

\* EntryStep with the counter incremented before the cancelled test
EntryStep_IncrementFirst(c, lim, repeat) ==
    IF c
    THEN [pc |-> "return", repeat |-> repeat + 1]
    ELSE IF LimitReached(lim, repeat + 1)
         THEN [pc |-> "raise", repeat |-> repeat + 1]
         ELSE [pc |-> "call_api", repeat |-> repeat + 1]

\* EntryStep with the limit test made before the cancelled test
EntryStep_LimitFirst(c, lim, repeat) ==
    IF LimitReached(lim, repeat + 1)
    THEN [pc |-> "raise", repeat |-> repeat + 1]
    ELSE IF c
         THEN [pc |-> "return", repeat |-> repeat]
         ELSE [pc |-> "call_api", repeat |-> repeat + 1]

\* results(), lines 277-281: the cancelled test comes first and leaves the
\* counter alone; otherwise the counter is incremented and then compared
\* with the limit
EntryStep(c, lim, repeat) ==
    IF c
    THEN [pc |-> "return", repeat |-> repeat]
    ELSE IF LimitReached(lim, repeat + 1)
         THEN [pc |-> "raise", repeat |-> repeat + 1]
         ELSE [pc |-> "call_api", repeat |-> repeat + 1]

\* results(), lines 277-283: the innermost frame starts: it returns the
\* synthetic Cancelled response, raises the timeout or starts the status
\* query
ResultsEnter ==
    /\ UNCHANGED <<uploadvars, authvars>>
    /\ pc = "entry"
    /\ LET e == EntryStep(cancelled, limit, current_repeat)
       IN /\ e.repeat <= MaxRepeat
          /\ e.pc = "call_api" => queries < MaxQueries
          /\ pc' = e.pc
          /\ current_repeat' = e.repeat
          /\ queries' = IF e.pc = "call_api" THEN queries + 1 ELSE queries
          /\ outcome' = CASE e.pc = "return" -> ReturnOutcome(CancelledResponse)
                           [] e.pc = "raise" -> RaiseOutcome(TimeoutError)
                           [] OTHER -> outcome
    /\ UNCHANGED <<context, limit, on_response_fetched, cancelled, stack,
                   server, fetched, sent, calls, at_call, cancel_pc>>

\* CallbackInvoked for every response received, whatever its status
CallbackInvoked_AnyStatus(result, has_callback) ==
    has_callback /\ result.kind = "ok"

\* lines 283-288: on_response_fetched is called when it was given, the
\* query did not raise and the status code passed the test of line 284
CallbackInvoked(result, has_callback) ==
    has_callback /\ result.kind = "ok" /\ result.status_code = 200

\* AttemptFailed without the case of an exception of on_response_fetched
AttemptFailed_CallbackNotCaught(result, callback_raises) ==
    \/ result.kind # "ok"
    \/ result.status_code # 200
    \/ ~HasKey(result.response, "status")

\* lines 282-296: an exception is raised inside the try block, by
\* __call_api, by the status test of line 284, by on_response_fetched or
\* by response["status"], and caught by "except Exception"
AttemptFailed(result, callback_raises) ==
    \/ result.kind # "ok"
    \/ result.status_code # 200
    \/ callback_raises
    \/ ~HasKey(result.response, "status")

\* results(), lines 283-296: the status query comes back
CallApiReturns ==
    /\ UNCHANGED <<uploadvars, authvars>>
    /\ pc = "call_api"
    /\ \E reply \in PollReplies, callback_raises \in BOOLEAN :
         LET r == CallApi(context, reply)
             response == r.result.response
             invoked == CallbackInvoked(r.result, on_response_fetched)
         IN /\ server' = Append(server, reply)
            /\ sent' = sent + (IF r.sent THEN 1 ELSE 0)
            /\ callback_raises => invoked
            /\ fetched' = IF invoked
                          THEN Append(fetched, [response |-> response,
                                                raised |-> callback_raises])
                          ELSE fetched
            /\ IF AttemptFailed(r.result, callback_raises)
               THEN pc' = "sleep_except" /\ UNCHANGED outcome
               ELSE IF IsFinal(response)
                    THEN pc' = "return" /\ outcome' = ReturnOutcome(response)
                    ELSE pc' = "sleep_try" /\ UNCHANGED outcome
    /\ UNCHANGED <<context, limit, on_response_fetched, current_repeat,
                   cancelled, stack, queries, calls, at_call, cancel_pc>>

\* time.sleep(self.interval) is over: "return self.results()" of line 293
\* or of line 296 opens a new frame
SleepDone ==
    /\ UNCHANGED <<uploadvars, authvars>>
    /\ pc \in {"sleep_try", "sleep_except"}
    /\ stack' = Append(stack, IF pc = "sleep_try" THEN "try" ELSE "except")
    /\ pc' = "entry"
    /\ UNCHANGED <<context, limit, on_response_fetched, current_repeat,
                   cancelled, outcome, queries, server, fetched, sent, calls,
                   at_call, cancel_pc>>

\* a frame hands its value to the frame that called it
PropagateReturn ==
    /\ UNCHANGED <<uploadvars, authvars>>
    /\ pc = "return"
    /\ stack' = SubSeq(stack, 1, Len(stack) - 1)
    /\ pc' = IF Len(stack) = 1 THEN "done" ELSE "return"
    /\ UNCHANGED <<context, limit, on_response_fetched, current_repeat,
                   cancelled, outcome, queries, server, fetched, sent, calls,
                   at_call, cancel_pc>>

\* where an exception leaving a frame called from `site' arrives: the try
\* block of line 282 catches what line 293 raises, the handler of line 294
\* does not catch what line 296 raises
AfterRaise_HandlerCatches(site) ==
    CASE site = "caller" -> "done"
      [] site = "try" -> "sleep_except"
      [] site = "except" -> "sleep_except"

AfterRaise(site) ==
    CASE site = "caller" -> "done"
      [] site = "try" -> "sleep_except"
      [] site = "except" -> "raise"

\* the timeout error leaves the innermost frame
PropagateRaise ==
    /\ UNCHANGED <<uploadvars, authvars>>
    /\ pc = "raise"
    /\ stack' = SubSeq(stack, 1, Len(stack) - 1)
    /\ pc' = AfterRaise(stack[Len(stack)])
    /\ outcome' = IF pc' = "sleep_except" THEN NoOutcome ELSE outcome
    /\ UNCHANGED <<context, limit, on_response_fetched, current_repeat,
                   cancelled, queries, server, fetched, sent, calls, at_call,
                   cancel_pc>>

\* another thread sets self.cancelled = True
SetCancelled ==
    /\ UNCHANGED <<uploadvars, authvars>>
    /\ ~cancelled
    /\ cancelled' = TRUE
    /\ cancel_pc' = pc
    /\ UNCHANGED <<context, limit, on_response_fetched, current_repeat, stack,
                   pc, outcome, queries, server, fetched, sent, calls, at_call>>

(***************************************************************************)
(* BaseApiClient.upload_file_part                                          *)
(***************************************************************************)
PutOk == "ok"
PutErrors == {"connection refused", "timeout"}
ETags == {"etag-a", "etag-b"}
PartNumbers == {1, 2}

\* the value _do_upload_file_part returns on a PUT without network error
PartRecord(part_number, etag) == [part_number |-> part_number, etag |-> etag]
NoPart == PartRecord(0, "")

UNoOutcome == [kind |-> "none", value |-> NoPart, exc |-> ""]
UReturnNone == [kind |-> "return", value |-> NoPart, exc |-> ""]
URaise(exc) == [kind |-> "raise", value |-> NoPart, exc |-> exc]

\* line 206: while retries < max_retries
LoopContinues(r, m) == r < m

\* RetryAllowed with the bound included
RetryAllowed_Inclusive(r, m) == r <= m

\* line 212: if retries < max_retries
RetryAllowed(r, m) == r < m

\* the delay with the exponent counted from 0
BackoffDelay_FromOne(r) == 2 ^ (r - 1)

\* line 214: delay = 2**retries
BackoffDelay(r) == 2 ^ r

InitUpload ==
    /\ max_retries = 0
    /\ file_part_number = 0
    /\ retries = 0
    /\ u_pc = "idle"
    /\ puts = 0
    /\ put_log = <<>>
    /\ sleeps = <<>>
    /\ last_response = NoPart
    /\ u_outcome = UNoOutcome

\* lines 204-208: upload_file_part is called; the loop test is made and the
\* first PUT issued
UploadCall ==
    /\ UNCHANGED <<pollvars, authvars>>
    /\ u_pc = "idle"
    /\ \E m \in 0..MaxRetriesArg, n \in PartNumbers :
         /\ max_retries' = m
         /\ file_part_number' = n
         /\ retries' = 0
         /\ IF LoopContinues(0, m)
            THEN u_pc' = "put" /\ puts' = 1 /\ UNCHANGED u_outcome
            ELSE u_pc' = "done" /\ puts' = 0 /\ u_outcome' = UReturnNone
    /\ UNCHANGED <<put_log, sleeps, last_response>>

\* lines 189-202 and 208-219: the PUT in flight ends.  Without network
\* error _do_upload_file_part returns the part record, which line 208
\* drops, and the loop goes round with retries unchanged; with a network
\* error the handler counts the retry and sleeps or re-raises.
PutReply ==
    /\ UNCHANGED <<pollvars, authvars>>
    /\ u_pc = "put"
    /\ \/ \E etag \in ETags :
            /\ put_log' = Append(put_log, PutOk)
            /\ last_response' = PartRecord(file_part_number, etag)
            /\ IF LoopContinues(retries, max_retries)
               THEN /\ puts < MaxPuts
                    /\ puts' = puts + 1
                    /\ u_pc' = "put"
                    /\ UNCHANGED u_outcome
               ELSE /\ u_pc' = "done"
                    /\ u_outcome' = UReturnNone
                    /\ UNCHANGED puts
            /\ UNCHANGED <<retries, sleeps>>
       \/ \E e \in PutErrors :
            /\ put_log' = Append(put_log, e)
            /\ retries' = retries + 1
            /\ IF RetryAllowed(retries', max_retries)
               THEN /\ sleeps' = Append(sleeps, BackoffDelay(retries'))
                    /\ u_pc' = "sleep"
                    /\ UNCHANGED u_outcome
               ELSE /\ u_pc' = "done"
                    /\ u_outcome' = URaise(e)
                    /\ UNCHANGED sleeps
            /\ UNCHANGED <<puts, last_response>>
    /\ UNCHANGED <<max_retries, file_part_number>>

\* time.sleep(delay) of line 216 is over: the loop test and the next PUT
UploadSleepDone ==
    /\ UNCHANGED <<pollvars, authvars>>
    /\ u_pc = "sleep"
    /\ IF LoopContinues(retries, max_retries)
       THEN /\ puts < MaxPuts
            /\ puts' = puts + 1
            /\ u_pc' = "put"
            /\ UNCHANGED u_outcome
       ELSE /\ u_pc' = "done"
            /\ u_outcome' = UReturnNone
            /\ UNCHANGED puts
    /\ UNCHANGED <<max_retries, file_part_number, retries, put_log, sleeps,
                   last_response>>

NextUpload ==
    \/ UploadCall
    \/ PutReply
    \/ UploadSleepDone

(***************************************************************************)
(* CplusApiRequest: api_token, _default_headers and get / post / put       *)
(***************************************************************************)
Verbs == {"GET", "POST", "PUT"}
TEHeader == [key |-> TEKey, value |-> "trailers"]

\* the headers argument of get / post / put: {} is the default argument
HeaderArgs == {{}, {TEHeader}, {JsonContentType}}

\* the login POST without headers of its own
LoginHeaders_Default == {}

\* line 495: the headers of the login POST
LoginHeaders == {JsonContentType}

\* CplusApiRequest._default_headers, given the value of self.api_token
FacadeDefaultHeaders(token) ==
    {[key |-> AuthorizationKey, value |-> "Bearer " \o token], JsonContentType}

\* what the identity endpoint and the job API may answer
AccessTokens == {"token-a", "token-b"}
NonJsonReply(status) ==
    [err |-> FALSE, reason |-> "", status |-> status,
     body |-> [json |-> FALSE, doc |-> EmptyDoc]]
IdentityReplies ==
    {NetError, HttpReply(200, EmptyDoc), HttpReply(401, EmptyDoc),
     HttpReply(401, {<<"description", "bad credentials">>})}
    \cup {HttpReply(200, {<<"access_token", t>>}) : t \in AccessTokens}
ApiReplies ==
    {NetError, NonJsonReply(502), HttpReply(0, EmptyDoc), HttpReply(200, EmptyDoc),
     HttpReply(200, {<<"name", "layer">>}), HttpReply(201, {<<"uuid", "uuid-1">>}),
     HttpReply(204, EmptyDoc), NetFailure("Operation timed out"),
     HttpReply(500, {<<"detail", "server error">>})}

\* how a call ended: nothing yet, a raised exception (a
\* CplusApiRequestError with the status code and the detail of its
\* message), the pair (response, status_code) of get / post / put, the
\* value of api_token or of a facade operation, or a returned document
ANone == [kind |-> "none", exc |-> "", response |-> EmptyDoc, status_code |-> 0,
          value |-> "", detail |-> ""]
ARaise(exc) == [ANone EXCEPT !.kind = "raise", !.exc = exc]
ApiRequestError == "CplusApiRequestError"
ARaiseDetail(status_code, detail) ==
    [ANone EXCEPT !.kind = "raise", !.exc = ApiRequestError,
                  !.status_code = status_code, !.detail = detail]
ADoc(response) == [ANone EXCEPT !.kind = "doc", !.response = response]
APair(response, status_code) ==
    [ANone EXCEPT !.kind = "pair", !.response = response,
                  !.status_code = status_code]
AValue(v) == [ANone EXCEPT !.kind = "value", !.value = v]
OfResult(r) ==
    IF r.kind = "raise" THEN ARaise(r.exc) ELSE APair(r.response, r.status_code)

NoBuilt == [bearer |-> "", at |-> 0, exp |-> 0]

\* CplusApiPooling.__init__, lines 259-268 ("x or default" takes the
\* default for None and for 0, both written 0 here)
PyOr(x, default) == IF x = 0 THEN default ELSE x
PoolingInit(ctx, url, headers, max_limit, interval) ==
    [context |-> ctx, url |-> url, headers |-> headers, current_repeat |-> 0,
     limit |-> PyOr(max_limit, DEFAULT_LIMIT),
     interval |-> PyOr(interval, DEFAULT_INTERVAL), cancelled |-> FALSE]
NoSession == PoolingInit("", "", {}, 0, 0)

\* CplusApiRequest.__init__ (lines 458-463) and no call in progress
NewClient ==
    [_api_token |-> None, token_exp |-> 0,
     pc |-> "idle",        \* "idle", "wait" (a request is in flight), "done"
     op |-> "",            \* "api_token", a verb or the facade operation called
     stage |-> "",         \* what is in flight: "login" or "request"
     outcome |-> ANone,    \* how the caller's call ended
     logins |-> 0,         \* login POSTs handed to the network
     requests |-> 0,       \* other requests handed to the network
     raw |-> {},           \* raw headers of the last request sent
     built |-> NoBuilt,    \* the last Authorization header built
     session |-> NoSession]  \* the poll session fetch_scenario_status made

\* _is_valid_token, lines 471-475
IsValidToken(token, exp, t) == token # None /\ exp > t + TokenMargin

\* lines 141-143, 158-161, 176-179: _generate_request sets the headers and
\* the request is handed to the network access manager
SendOrRaise(c, headers) ==
    IF SetHeadersRaises(headers)
    THEN [c EXCEPT !.pc = "done", !.outcome = ARaise("ValueError")]
    ELSE [c EXCEPT !.pc = "wait", !.stage = "request",
                   !.requests = @ + 1, !.raw = RawHeaders(headers)]

\* the caller's call goes on with the value of self.api_token: the property
\* access is over, or _default_headers builds the header set (lines
\* 465-469) and the request is generated
WithToken(c, token, t) ==
    IF c.op = "api_token"
    THEN [c EXCEPT !.pc = "done", !.outcome = AValue(token)]
    ELSE SendOrRaise(
           [c EXCEPT !.built = [bearer |-> token, at |-> t, exp |-> c.token_exp]],
           FacadeDefaultHeaders(token))

\* lines 494-496, self.post(url, payload, headers): "headers or
\* self._default_headers()" (line 158) keeps the headers given; without
\* them _default_headers would read api_token again, which has no valid
\* token yet and would post again, without end
LoginPost(c) ==
    IF EffectiveHeaders(LoginHeaders, {}) = {}
    THEN [c EXCEPT !.pc = "done", !.outcome = ARaise("RecursionError")]
    ELSE IF SetHeadersRaises(LoginHeaders)
         THEN [c EXCEPT !.pc = "done", !.outcome = ARaise("ValueError")]
         ELSE [c EXCEPT !.pc = "wait", !.stage = "login", !.logins = @ + 1,
                        !.raw = RawHeaders(LoginHeaders)]

\* TokenLookup with the expiry written before the credentials are read
TokenLookup_ExpiryFirst(c, cfg, t) ==
    IF IsValidToken(c._api_token, c.token_exp, t)
    THEN WithToken(c, c._api_token, t)
    ELSE IF ~cfg
         THEN WithToken([c EXCEPT !.token_exp = t + TokenLifetime], None, t)
         ELSE LoginPost(c)

\* api_token, lines 479-496: the cached token, None without credentials,
\* or the login POST
TokenLookup(c, cfg, t) ==
    IF IsValidToken(c._api_token, c.token_exp, t)
    THEN WithToken(c, c._api_token, t)
    ELSE IF ~cfg
         THEN WithToken(c, None, t)
         ELSE LoginPost(c)

\* api_token, lines 494-509: the login POST has been answered
LoginReplied(c, reply, t) ==
    LET r == HandleResponse(reply)
    IN IF r.kind = "raise"
       THEN [c EXCEPT !.pc = "done", !.outcome = ARaise(r.exc)]
       ELSE IF r.status_code # 200
            THEN [c EXCEPT !.pc = "done",
                    !.outcome = ARaiseDetail(r.status_code,
                       DictGet(r.response, "description", "Unknwon Error!"))]
            ELSE IF ~HasKey(r.response, "access_token")
                 THEN [c EXCEPT !.pc = "done",
                         !.outcome = ARaiseDetail(0, "missing access_token!")]
                 ELSE LET token == DictGet(r.response, "access_token", None)
                      IN WithToken([c EXCEPT !._api_token = token,
                                             !.token_exp = t + TokenLifetime],
                                   token, t)

(***************************************************************************)
(* The facade operations of CplusApiRequest, lines 511-698.                *)
(***************************************************************************)
\* operations that return the body whatever the status (lines 520-521,
\* 535-536, 589-590)
UncheckedOps == {"get_layer_detail", "check_layer", "finish_upload_layer"}
\* operations that return True
BoolOps == {"abort_upload_layer", "execute_scenario", "cancel_scenario"}
FacadeOps ==
    UncheckedOps \cup BoolOps
    \cup {"start_upload_layer", "submit_scenario_detail",
          "fetch_scenario_output_list", "fetch_scenario_detail"}

\* the status each operation compares the status code with
ExpectedStatus(op) ==
    CASE op \in {"start_upload_layer", "submit_scenario_detail",
                 "execute_scenario"} -> 201
      [] op = "abort_upload_layer" -> 204
      [] OTHER -> 200

\* what a facade operation makes of the result r of its get or post
FacadeResult(op, r) ==
    IF r.kind = "raise" THEN ARaise(r.exc)
    ELSE IF op \in UncheckedOps THEN ADoc(r.response)
    ELSE IF r.status_code # ExpectedStatus(op)
         THEN ARaiseDetail(0, DictGet(r.response, "detail", ""))
    ELSE IF op \in BoolOps THEN AValue("True")
    ELSE IF op = "submit_scenario_detail"
         THEN IF HasKey(r.response, "uuid")
              THEN AValue(DictGet(r.response, "uuid", ""))
              ELSE ARaise("KeyError")
    ELSE ADoc(r.response)

\* what the caller of get / post / put or of a facade operation receives
CallResult(op, r) ==
    IF op \in FacadeOps THEN FacadeResult(op, r) ELSE OfResult(r)

\* the attributes of a CplusApiUrl object, lines 310-450
CplusApiUrlAttributes ==
    {"base_url", "get_base_api_url", "layer_detail", "layer_check",
     "layer_upload_start", "layer_upload_finish", "layer_upload_abort",
     "scenario_submit", "scenario_execute", "scenario_status",
     "scenario_cancel", "scenario_detail", "scenario_output_list"}

\* CplusApiUrl.scenario_status, line 414
ScenarioStatusUrl(uuid) == "/scenario/" \o uuid \o "/status/"
ScenarioUuids == {"uuid-1", "uuid-2"}

\* fetch_scenario_status, lines 652-653: self.urls.headers is read to
\* build the session
FetchScenarioStatus(c, uuid) ==
    IF "headers" \notin CplusApiUrlAttributes
    THEN [c EXCEPT !.pc = "done", !.outcome = ARaise("AttributeError")]
    ELSE [c EXCEPT !.pc = "done", !.outcome = AValue("CplusApiPooling"),
                   !.session = PoolingInit("facade", ScenarioStatusUrl(uuid),
                                           {}, 0, 0)]

\* the call of one of the concurrent callers
Threads == 1..MaxThreads
IdleThread ==
    [pc |-> "idle", op |-> "", stage |-> "", outcome |-> ANone, found |-> FALSE]

\* math.ceil(a / b) for a >= 0 and b > 0: the quotient of the true
\* division rounded up (the float quotient is exact enough for this below
\* 2^53 bytes)
MathCeilDiv(a, b) == IF a % b = 0 THEN a \div b ELSE (a \div b) + 1

\* number_of_parts rounded down and one added
NumberOfParts_FloorPlusOne(file_size) == (file_size \div CHUNK_SIZE) + 1

\* line 557: math.ceil(file_size / CHUNK_SIZE)
NumberOfParts(file_size) == MathCeilDiv(file_size, CHUNK_SIZE)

\* the sizes of the files uploaded: empty, one byte, and one byte around
\* every multiple of CHUNK_SIZE
FileSizes ==
    {0, 1} \cup {k * CHUNK_SIZE + d : k \in 1..MaxParts, d \in {-1, 0, 1}}

\* lines 550-557, the two numeric fields of the payload
StartPayload(file_size) ==
    [size |-> file_size, number_of_parts |-> NumberOfParts(file_size)]
NoPayload == [size |-> 0, number_of_parts |-> 0]

InitAuth ==
    /\ threads = [i \in Threads |-> IdleThread]
    /\ now = 0
    /\ auth_config \in BOOLEAN
    /\ client = NewClient
    /\ a_call = [valid |-> FALSE, cfg |-> FALSE, logins |-> 0, requests |-> 0,
                 headers |-> {}, arg |-> "", payload |-> NoPayload,
                 identity |-> NetError, api |-> NetError]

\* the state a call is made in and its arguments; identity and api are
\* the answers the identity endpoint and the job API have ready for the
\* requests of the call
Snapshot(headers, arg) ==
    [a_call EXCEPT !.valid = IsValidToken(client._api_token, client.token_exp, now),
                   !.cfg = auth_config, !.logins = client.logins,
                   !.requests = client.requests,
                   !.headers = headers, !.arg = arg, !.payload = NoPayload]

\* the client at the start of a call of the caller
Calling(op) ==
    [client EXCEPT !.op = op, !.stage = "", !.outcome = ANone, !.raw = {},
                   !.built = NoBuilt, !.session = NoSession]

\* the caller reads the property api_token
AccessToken ==
    /\ UNCHANGED <<pollvars, uploadvars, threads>>
    /\ client.pc \in {"idle", "done"}
    /\ client' = TokenLookup(Calling("api_token"), auth_config, now)
    /\ client'.logins <= MaxAccess
    /\ a_call' = Snapshot({}, "")
    /\ UNCHANGED <<now, auth_config>>

\* the caller calls get, post or put: "headers or self._default_headers()"
Request ==
    /\ UNCHANGED <<pollvars, uploadvars, threads>>
    /\ client.pc \in {"idle", "done"}
    /\ \E verb \in Verbs, headers \in HeaderArgs :
         /\ client' = IF headers = {}
                       THEN TokenLookup(Calling(verb), auth_config, now)
                       ELSE SendOrRaise(Calling(verb), headers)
         /\ a_call' = Snapshot(headers, "")
    /\ client'.requests <= MaxAccess /\ client'.logins <= MaxAccess
    /\ UNCHANGED <<now, auth_config>>

\* the caller calls a facade operation, which calls self.get or self.post
\* without headers
FacadeCall ==
    /\ UNCHANGED <<pollvars, uploadvars, threads>>
    /\ client.pc \in {"idle", "done"}
    /\ \E op \in FacadeOps :
         /\ client' = TokenLookup(Calling(op), auth_config, now)
         /\ a_call' = Snapshot({}, "")
    /\ client'.requests <= MaxAccess /\ client'.logins <= MaxAccess
    /\ UNCHANGED <<now, auth_config>>

\* start_upload_layer, lines 549-559: the payload is built from the size of
\* the file and given to self.post, called without headers
StartUploadLayer ==
    /\ UNCHANGED <<pollvars, uploadvars, threads>>
    /\ client.pc \in {"idle", "done"}
    /\ \E file_size \in FileSizes :
         /\ client' = TokenLookup(Calling("start_upload_layer"), auth_config, now)
         /\ a_call' = [Snapshot({}, "") EXCEPT !.payload = StartPayload(file_size)]
    /\ client'.requests <= MaxAccess /\ client'.logins <= MaxAccess
    /\ UNCHANGED <<now, auth_config>>

\* the caller calls fetch_scenario_status
FetchStatusCall ==
    /\ UNCHANGED <<pollvars, uploadvars, threads>>
    /\ client.pc \in {"idle", "done"}
    /\ \E uuid \in ScenarioUuids :
         /\ client' = FetchScenarioStatus(Calling("fetch_scenario_status"), uuid)
         /\ a_call' = Snapshot({}, uuid)
    /\ UNCHANGED <<now, auth_config>>

\* between two calls the caller has taken the result of the last one, and
\* one of the servers comes to answer differently
Serve ==
    /\ UNCHANGED <<pollvars, uploadvars, threads>>
    /\ client.pc \in {"idle", "done"}
    /\ client' = [Calling("") EXCEPT !.pc = "idle"]
    /\ \E reply \in IdentityReplies \cup ApiReplies :
         \/ /\ reply \in IdentityReplies \ {a_call.identity}
            /\ a_call' = [a_call EXCEPT !.identity = reply]
         \/ /\ reply \in ApiReplies \ {a_call.api}
            /\ a_call' = [a_call EXCEPT !.api = reply]
    /\ UNCHANGED <<now, auth_config>>

\* the event loop of _make_request ends: the reply in flight is finished
Reply ==
    /\ UNCHANGED <<pollvars, uploadvars, threads>>
    /\ client.pc = "wait"
    /\ client' = IF client.stage = "login"
                 THEN LoginReplied(client, a_call.identity, now)
                 ELSE [client EXCEPT
                         !.pc = "done",
                         !.outcome = CallResult(client.op,
                                                HandleResponse(a_call.api))]
    /\ client'.requests <= MaxAccess /\ client'.logins <= MaxAccess
    /\ UNCHANGED <<now, auth_config, a_call>>

\* the instants at which the clock is read: the first hours, and the hours
\* around the end of validity of a token obtained then
Instants == {0, 1} \cup ((MaxTime - 2)..MaxTime)

\* time passes between two calls
Tick ==
    /\ UNCHANGED <<pollvars, uploadvars, threads>>
    /\ \E t \in Instants : t > now /\ now' = t
    /\ UNCHANGED <<auth_config, client, a_call>>

\* the user stores or removes the credentials of the identity endpoint
SetAuthConfig ==
    /\ UNCHANGED <<pollvars, uploadvars, threads>>
    /\ auth_config' = ~auth_config
    /\ UNCHANGED <<now, client, a_call>>

(***************************************************************************)
(* Concurrent callers of one CplusApiRequest: threads, or callbacks that   *)
(* the event loop of _make_request (lines 119-126) runs while a reply is   *)
(* awaited.  _api_token and token_exp are shared; api_token (lines         *)
(* 477-509) takes no lock.                                                 *)
(***************************************************************************)
\* the client as the call of caller i sees it, and the two parts it is
\* split into again after a step of that call
InCall(i) ==
    [client EXCEPT !.pc = threads[i].pc, !.op = threads[i].op,
                   !.stage = threads[i].stage, !.outcome = threads[i].outcome]
SharedPart(c) ==
    [c EXCEPT !.pc = "idle", !.op = "", !.stage = "", !.outcome = ANone,
              !.raw = {}, !.built = NoBuilt]
CallPart(c, found) ==
    [pc |-> c.pc, op |-> c.op, stage |-> c.stage, outcome |-> c.outcome,
     found |-> found]

\* caller i reads api_token or calls get, with or without headers; found
\* records that the call needed a token, found none valid and had
\* credentials to log in with
ThreadCall ==
    /\ UNCHANGED <<pollvars, uploadvars>>
    /\ \E i \in Threads, op \in {"api_token", "GET"}, headers \in {{}, {TEHeader}} :
         /\ threads[i].pc = "idle"
         /\ op = "api_token" => headers = {}
         /\ LET c0 == [InCall(i) EXCEPT !.op = op]
                c1 == IF headers = {}
                      THEN TokenLookup(c0, auth_config, now)
                      ELSE SendOrRaise(c0, headers)
                found == /\ headers = {}
                         /\ ~IsValidToken(client._api_token, client.token_exp, now)
                         /\ auth_config
            IN /\ client' = SharedPart(c1)
               /\ threads' = [threads EXCEPT ![i] = CallPart(c1, found)]
    /\ client'.requests <= MaxAccess /\ client'.logins <= MaxAccess
    /\ UNCHANGED <<now, auth_config, a_call>>

\* the reply caller i waits for is finished
ThreadReply ==
    /\ UNCHANGED <<pollvars, uploadvars>>
    /\ \E i \in Threads :
         /\ threads[i].pc = "wait"
         /\ \E reply \in IF threads[i].stage = "login"
                         THEN IdentityReplies ELSE ApiReplies :
              LET c1 == IF threads[i].stage = "login"
                        THEN LoginReplied(InCall(i), reply, now)
                        ELSE [InCall(i) EXCEPT
                                !.pc = "done",
                                !.outcome = OfResult(HandleResponse(reply))]
              IN /\ client' = SharedPart(c1)
                 /\ threads' = [threads EXCEPT ![i] = CallPart(c1, @.found)]
    /\ client'.requests <= MaxAccess /\ client'.logins <= MaxAccess
    /\ UNCHANGED <<now, auth_config, a_call>>

NextConc ==
    \/ ThreadCall
    \/ ThreadReply
    \/ Tick
    \/ SetAuthConfig

NextAuth ==
    \/ AccessToken
    \/ Request
    \/ FacadeCall
    \/ FetchStatusCall
    \/ Serve
    \/ Reply
    \/ Tick
    \/ SetAuthConfig

InitIdleAuth == InitAuth /\ auth_config = FALSE

InitPollIdle ==
    /\ InitPoll
    /\ context = "client"
    /\ limit = 1
    /\ ~on_response_fetched

Init == InitPoll /\ InitUpload /\ InitIdleAuth

InitForUpload == InitPollIdle /\ InitUpload /\ InitIdleAuth

InitForAuth == InitPollIdle /\ InitUpload /\ InitAuth

Next ==
    \/ CallResults
    \/ ResultsEnter
    \/ CallApiReturns
    \/ SleepDone
    \/ PropagateReturn
    \/ PropagateRaise
    \/ SetCancelled

Spec == Init /\ [][Next]_vars

\* every step of a results() call is taken in the end: the interpreter
\* runs the frame, the status query comes back and the sleep is over; the
\* caller and the thread that cancels are under no obligation
SpecLive ==
    /\ Init
    /\ [][Next]_vars
    /\ WF_vars(ResultsEnter)
    /\ WF_vars(CallApiReturns)
    /\ WF_vars(SleepDone)
    /\ WF_vars(PropagateReturn)
    /\ WF_vars(PropagateRaise)

SpecUpload == InitForUpload /\ [][NextUpload]_vars

SpecAuth == InitForAuth /\ [][NextAuth]_vars

SpecConc == InitForAuth /\ [][NextConc]_vars

NextStart ==
    \/ StartUploadLayer
    \/ Tick
    \/ SetAuthConfig

SpecStart == InitForAuth /\ [][NextStart]_vars

(***************************************************************************)
(* Claims about CplusApiPooling.results(), checked under Spec.             *)
(***************************************************************************)
ReplyDoc(reply) == reply.body.doc
Is200(reply) == ~reply.err /\ reply.status = 200
NonFinal200(reply) ==
    Is200(reply) /\ HasKey(ReplyDoc(reply), "status") /\ ~IsFinal(ReplyDoc(reply))
Final200(reply) == Is200(reply) /\ IsFinal(ReplyDoc(reply))
NoCallbackError == \A i \in 1..Len(fetched) : ~fetched[i].raised
FirstCallOnly == calls = 1 /\ ~at_call.cancelled /\ ~cancelled

\* the endpoint answered 200 non-terminal n times and then 200 terminal
PendingThenFinal ==
    /\ Len(server) >= 1
    /\ \A i \in 1..(Len(server) - 1) : NonFinal200(server[i])
    /\ Final200(server[Len(server)])

\* C1: with cancelled false and a limit larger than the number of calls, an
\* endpoint that answers 200 non-terminal n times and then 200 terminal
\* makes results() return the terminal response after exactly n+1 status
\* queries, the callback having been invoked once per response, in order.
C1_ReturnsTerminalAfterPending ==
    ( /\ FirstCallOnly
      /\ on_response_fetched
      /\ NoCallbackError
      /\ PendingThenFinal
      /\ (limit = UNBOUNDED \/ limit > Len(server)) )
    => /\ pc \in {"return", "done"}
       /\ outcome = ReturnOutcome(ReplyDoc(server[Len(server)]))
       /\ queries = Len(server)
       /\ Len(fetched) = Len(server)
       /\ \A i \in 1..Len(server) : fetched[i].response = ReplyDoc(server[i])

\* C2: with limit L (not -1) and an endpoint that never answers a terminal
\* status, results() fails with the timeout on the L-th attempt, L-1
\* attempts having been carried out as status queries.
C2_TimeoutOnLthAttempt ==
    ( /\ calls = 1
      /\ pc = "done"
      /\ outcome.kind = "raise"
      /\ limit # UNBOUNDED
      /\ \A i \in 1..Len(server) : ~Final200(server[i]) )
    => /\ current_repeat = limit
       /\ queries = limit - 1

\* C3: for a limit other than -1 the attempt counter never exceeds the
\* limit.
C3_RepeatNeverExceedsLimit ==
    limit # UNBOUNDED => current_repeat <= limit

\* C4: when cancelled is true before results() is called, results()
\* returns {"status": "Cancelled"}, issues no status query and leaves the
\* attempt counter unchanged.
C4_CancelledBeforeCall ==
    (calls >= 1 /\ at_call.cancelled)
    => /\ queries = at_call.queries
       /\ sent = at_call.sent
       /\ current_repeat = at_call.repeat
       /\ Len(stack) <= 1
       /\ \/ pc = "entry"
          \/ /\ pc \in {"return", "done"}
             /\ outcome = ReturnOutcome(CancelledResponse)

C4_Witness ==
    /\ pc = "done"
    /\ at_call.cancelled
    /\ outcome = ReturnOutcome(CancelledResponse)
    /\ queries = 0

MidCall == {"call_api", "sleep_try", "sleep_except"}

\* the result of a call during which cancelled was set: the synthetic
\* Cancelled response of the next iteration boundary, or the terminal
\* response of the query that was in flight
C5_Result ==
    (cancel_pc \in MidCall /\ pc = "done")
    => \/ outcome = ReturnOutcome(CancelledResponse)
       \/ /\ cancel_pc = "call_api"
          /\ outcome.kind = "return"
          /\ IsFinal(outcome.response)
          /\ Len(server) >= 1
          /\ outcome.response = ReplyDoc(server[Len(server)])

\* C5: setting cancelled during an in-flight status query or a sleep does
\* not abort the query in flight (the frame stays where it is and only the
\* answer ends the query), no status query is started once the flag is set,
\* and the next iteration boundary makes results() return Cancelled.
C5_CooperativeCancel ==
    [][ /\ (~cancelled /\ cancelled') => (pc' = pc /\ stack' = stack)
        /\ (pc = "call_api" /\ pc' # "call_api")
              => Len(server') = Len(server) + 1
        /\ cancelled => queries' = queries
        /\ (cancelled /\ pc = "entry")
              => (pc' = "return" /\ outcome' = ReturnOutcome(CancelledResponse))
        /\ C5_Result' ]_vars

C5_Witness ==
    /\ pc = "done"
    /\ cancel_pc \in MidCall
    /\ ~at_call.cancelled
    /\ queries > at_call.queries
    /\ outcome = ReturnOutcome(CancelledResponse)

(***************************************************************************)
(* Claims about upload_file_part, checked under SpecUpload.                *)
(***************************************************************************)
RECURSIVE SumSeq(_)
SumSeq(q) == IF q = <<>> THEN 0 ELSE q[1] + SumSeq(Tail(q))

AllFailed(log) == \A i \in 1..Len(log) : log[i] # PutOk

\* C6: a part PUT that fails 4 times and then succeeds, with max_retries 5:
\* upload_file_part succeeds on the 5th attempt, terminating after exactly
\* 5 PUTs, having slept 2+4+8+16 = 30 seconds.
C6_SucceedsOnFifthAttempt ==
    ( /\ max_retries = 5
      /\ Len(put_log) >= 5
      /\ AllFailed(SubSeq(put_log, 1, 4))
      /\ put_log[5] = PutOk )
    => /\ u_pc = "done"
       /\ u_outcome.kind = "return"
       /\ puts = 5
       /\ SumSeq(sleeps) = 30

\* C7: on a successful part PUT upload_file_part returns the record
\* {part_number, etag} of that PUT to its caller and issues no further PUT
\* for the part.
C7_ReturnsPartRecord ==
    (Len(put_log) >= 1 /\ put_log[Len(put_log)] = PutOk)
    => /\ u_pc = "done"
       /\ u_outcome.kind = "return"
       /\ u_outcome.value = last_response
       /\ last_response.part_number = file_part_number
       /\ puts = Len(put_log)

\* C8: after max_retries consecutive failed PUTs upload_file_part has
\* failed with the last failure, after exactly max_retries PUTs and without
\* a sleep after the last one.
C8_FailsAfterMaxRetries ==
    ( /\ max_retries >= 1
      /\ Len(put_log) = max_retries
      /\ AllFailed(put_log) )
    => /\ u_pc = "done"
       /\ u_outcome = URaise(put_log[max_retries])
       /\ puts = max_retries
       /\ Len(sleeps) = max_retries - 1
       /\ \A i \in 1..Len(sleeps) : sleeps[i] = 2 ^ i

C8_Witness ==
    /\ u_pc = "done"
    /\ u_outcome.kind = "raise"
    /\ max_retries = DefaultMaxRetries
    /\ Len(put_log) = DefaultMaxRetries
    /\ AllFailed(put_log)
    /\ puts = DefaultMaxRetries

(***************************************************************************)
(* Claims about the token of CplusApiRequest, checked under SpecAuth.      *)
(***************************************************************************)
TokenAccessDone == client.op = "api_token" /\ client.pc = "done"

\* C9: a successful login at time t caches the token with expires_at =
\* t + 24h; a token access while now < expires_at - 1h returns the cached
\* token without a login request; a token access at or past that boundary
\* (no valid token cached, credentials configured) sends exactly one login
\* request.
C9_TokenReuseAndSingleLogin ==
    /\ (client._api_token # None) => client.token_exp <= now + TokenLifetime
    /\ (TokenAccessDone /\ a_call.valid)
          => /\ client.outcome = AValue(client._api_token)
             /\ client.logins = a_call.logins
    /\ (TokenAccessDone /\ ~a_call.valid /\ a_call.cfg)
          => client.logins = a_call.logins + 1

\* C10: the bearer token put in an Authorization header is a cached token
\* with now + 1h < expires_at at the moment the header is built.
C10_BearerTokenIsValid ==
    client.built # NoBuilt
    => /\ client.built.bearer # None
       /\ client.built.at + TokenMargin < client.built.exp

\* a token access that found no valid token cached
TokenNeeded == TokenAccessDone /\ ~a_call.valid
\* the login POST such a token access makes is answered by the identity
\* endpoint
LoginAnswered == TokenNeeded /\ a_call.cfg /\ ~a_call.identity.err
IdentityDoc == a_call.identity.body.doc

\* C11: a token access that finds no valid token cached and no stored
\* credentials fails with an authentication error, hands no token value to
\* the caller and sends no request.
C11_MissingCredentialsFail ==
    (TokenNeeded /\ ~a_call.cfg)
    => /\ client.outcome.kind = "raise"
       /\ client.outcome.exc = ApiRequestError
       /\ client.logins = a_call.logins
       /\ client.requests = a_call.requests

\* C12: a login POST answered with a status other than 200 makes the token
\* access fail with an authentication error carrying the status code and
\* the description field of the body, "Unknown Error" when it is absent.
C12_LoginRejected ==
    (LoginAnswered /\ a_call.identity.status # 200)
    => client.outcome =
         ARaiseDetail(a_call.identity.status,
                      DictGet(IdentityDoc, "description", "Unknown Error"))

\* C13: a login POST answered with status 200 makes the token access fail
\* with "missing access_token" when the body has no access_token field, and
\* return the token of the body when it has one.
C13_LoginAccepted ==
    (LoginAnswered /\ a_call.identity.status = 200)
    => IF HasKey(IdentityDoc, "access_token")
       THEN client.outcome = AValue(DictGet(IdentityDoc, "access_token", None))
       ELSE /\ client.outcome.kind = "raise"
            /\ client.outcome.exc = ApiRequestError
            /\ client.outcome.detail = "missing access_token!"

\* a call of get, post or put is over and its request was sent
VerbCallSent ==
    /\ client.op \in Verbs
    /\ client.pc = "done"
    /\ client.requests = a_call.requests + 1

\* C15: a request that ends in a network failure makes get / post / put
\* raise an error carrying the reason of the failure; a pair (response,
\* status_code) is only returned when a response was received.
C15_NetworkFailureRaises ==
    /\ (VerbCallSent /\ a_call.api.err)
          => client.outcome = ARaise("Network error: " \o a_call.api.reason)
    /\ (client.op \in Verbs /\ client.outcome.kind = "pair")
          => VerbCallSent /\ ~a_call.api.err
C15_Witness ==
    /\ VerbCallSent
    /\ a_call.api = NetFailure("Operation timed out")
    /\ client.outcome = ARaise("Network error: Operation timed out")

\* C16: a received response makes get / post / put return the body decoded
\* as JSON with the status code of the response; only a body that is not
\* JSON gives the empty document.
C16_BodyDecodedWithStatus ==
    (VerbCallSent /\ ~a_call.api.err /\ a_call.api.status # 0)
    => client.outcome =
         APair(IF a_call.api.body.json THEN a_call.api.body.doc ELSE EmptyDoc,
               a_call.api.status)

\* C17: fetch_scenario_status(uuid) returns without raising a poll session
\* bound to the facade and to the status URL of the scenario, in its
\* initial state: counter 0, not cancelled, limit 3600, interval 1.
C17_StatusSessionReturned ==
    (client.op = "fetch_scenario_status" /\ client.pc = "done")
    => /\ client.outcome.kind = "value"
       /\ client.session.context = "facade"
       /\ client.session.url = ScenarioStatusUrl(a_call.arg)
       /\ client.session.current_repeat = 0
       /\ ~client.session.cancelled
       /\ client.session.limit = DEFAULT_LIMIT
       /\ client.session.interval = DEFAULT_INTERVAL

\* the call had a token for its Authorization header: a valid one cached,
\* or credentials and an identity endpoint that accepts the login
TokenReady ==
    \/ a_call.valid
    \/ /\ a_call.cfg
       /\ ~a_call.identity.err
       /\ a_call.identity.status = 200
       /\ HasKey(IdentityDoc, "access_token")
\* a call of the facade operation op is over, it had a token, and the job
\* API had an answer ready for its request
FacadeAnswered(op) ==
    client.op = op /\ client.pc = "done" /\ TokenReady /\ ~a_call.api.err
\* the status code of that answer as get / post report it, and the error
\* the facade is to raise for it
AnswerStatus == IF a_call.api.status = 0 THEN 500 ELSE a_call.api.status
DetailError == ARaiseDetail(0, DictGet(a_call.api.body.doc, "detail", ""))

\* C18: abort_upload_layer returns True exactly when the abort POST is
\* answered with status 204, and raises an error carrying the detail field
\* of the response (empty when absent) for any other status.
C18_AbortUploadLayer ==
    FacadeAnswered("abort_upload_layer")
    => IF AnswerStatus = 204
       THEN client.outcome = AValue("True")
       ELSE client.outcome = DetailError

\* C19: submit_scenario_detail returns the uuid of the response exactly on
\* status 201, execute_scenario returns True exactly on 201, and
\* cancel_scenario returns True exactly on 200; on any other status each
\* raises an error carrying the detail of the server.
C19_ScenarioOperations ==
    /\ FacadeAnswered("submit_scenario_detail")
         => IF AnswerStatus = 201
            THEN client.outcome = AValue(DictGet(a_call.api.body.doc, "uuid", ""))
            ELSE client.outcome = DetailError
    /\ FacadeAnswered("execute_scenario")
         => IF AnswerStatus = 201
            THEN client.outcome = AValue("True")
            ELSE client.outcome = DetailError
    /\ FacadeAnswered("cancel_scenario")
         => IF AnswerStatus = 200
            THEN client.outcome = AValue("True")
            ELSE client.outcome = DetailError

\* C20: every facade operation, check_layer, get_layer_detail and
\* finish_upload_layer included, turns a response with a 4xx or 5xx status
\* into an error carrying the detail of the server, and never returns the
\* body of such a response.
C20_RejectedResponseRaises ==
    \A op \in FacadeOps :
       (FacadeAnswered(op) /\ AnswerStatus >= 400)
       => client.outcome = DetailError

\* the login requests in flight
LoginsInFlight ==
    {i \in Threads : threads[i].pc = "wait" /\ threads[i].stage = "login"}

\* C14: concurrent calls on one CplusApiRequest that both find no valid
\* token never have more than one login request in flight, and together
\* they cause exactly one login.
C14_SingleLogin ==
    /\ Cardinality(LoginsInFlight) <= 1
    /\ (\A i \in Threads : threads[i].pc = "done" /\ threads[i].found)
          => client.logins = 1

(***************************************************************************)
(* Claims about start_upload_layer, checked under SpecStart.               *)
(***************************************************************************)
StartCalled == client.op = "start_upload_layer" /\ client.pc # "idle"

\* C21: for every file size, 0 and the exact multiples of CHUNK_SIZE
\* included, the number_of_parts of the payload of start_upload_layer is
\* the least integer n with n * CHUNK_SIZE >= file_size.
C21_NumberOfPartsIsCeiling ==
    StartCalled
    => LET n == a_call.payload.number_of_parts
           size == a_call.payload.size
       IN /\ n >= 0
          /\ n * CHUNK_SIZE >= size
          /\ n > 0 => (n - 1) * CHUNK_SIZE < size
C21_Witness ==
    /\ StartCalled
    /\ a_call.payload.size = 2 * CHUNK_SIZE
    /\ a_call.payload.number_of_parts = 2

(***************************************************************************)
(* Claims about the headers of a request, checked under SpecAuth.          *)
(***************************************************************************)
\* the name of a header as one string
RECURSIVE HeaderName(_)
HeaderName(key) ==
    IF key = <<>> THEN "" ELSE key[1] \o HeaderName(Tail(key))
\* the raw headers a request carries when every header of the set is
\* attached to it
Attached(headers) == {<<HeaderName(h.key), h.value>> : h \in headers}
VerbCallDone == client.op \in Verbs /\ client.pc = "done"

\* C22: a get / post / put call with headers of the caller issues the
\* request with every one of those headers attached; a call without
\* headers issues it with the default set, Content-Type: application/json
\* included.
C22_HeadersAttachedAndSent ==
    /\ (VerbCallDone /\ a_call.headers # {})
          => /\ client.requests = a_call.requests + 1
             /\ client.raw = Attached(a_call.headers)
    /\ (VerbCallDone /\ a_call.headers = {} /\ TokenReady)
          => /\ client.requests = a_call.requests + 1
             /\ <<"Content-Type", "application/json">> \in client.raw

(***************************************************************************)
(* Further claims about CplusApiPooling.results(), checked under Spec.     *)
(***************************************************************************)
\* a step in which a status query comes back, and the answer it had
QueryReturns == pc = "call_api" /\ pc' # "call_api"
LastReply == server'[Len(server')]
\* the answer is a transport error, has a status code other than 200 or
\* has no status field
FailedReply(reply) ==
    reply.err \/ reply.status # 200 \/ ~HasKey(ReplyDoc(reply), "status")
\* on_response_fetched was called in this step and raised
CallbackRaised ==
    Len(fetched') = Len(fetched) + 1 /\ fetched'[Len(fetched')].raised

C24_BackoffStartsAtOne ==
    \A k \in 1..Len(sleeps) : sleeps[k] = 2 ^ (k - 1)

\* C24 as amended: the wait after the k-th failed attempt is 2^k seconds
\* (2, 4, 8, 16), and there are fewer waits than max_retries: the last
\* failure is raised again without a wait.
C24_BackoffStartsAtTwo ==
    /\ \A k \in 1..Len(sleeps) : sleeps[k] = 2 ^ k
    /\ Len(sleeps) > 0 => Len(sleeps) < max_retries
C24_Witness ==
    /\ max_retries = DefaultMaxRetries
    /\ u_pc = "done"
    /\ u_outcome.kind = "raise"
    /\ sleeps = <<2, 4, 8, 16>>

(***************************************************************************)
(* Further claims about the token of CplusApiRequest, under SpecAuth.      *)
(***************************************************************************)
\* the step is the end of a login that the identity endpoint accepts
LoginAccepted ==
    /\ client.pc = "wait"
    /\ client.stage = "login"
    /\ ~a_call.identity.err
    /\ a_call.identity.status = 200
    /\ HasKey(IdentityDoc, "access_token")

\* C25: _api_token and token_exp change only in the step that ends a
\* successful login, which sets both together; every other step, a token
\* access that fails and an operation that does not log in included,
\* leaves both as they were.
C25_TokenChangedOnlyByLogin ==
    [][(client'._api_token # client._api_token
          \/ client'.token_exp # client.token_exp)
       => /\ LoginAccepted
          /\ client'._api_token = DictGet(IdentityDoc, "access_token", None)
          /\ client'.token_exp = now + TokenLifetime]_vars
C25_Witness ==
    /\ TokenNeeded
    /\ ~a_call.cfg
    /\ now > 0
    /\ client._api_token = None
    /\ client.token_exp = 0

(***************************************************************************)
(* Claims about the attempt limit of CplusApiPooling, under Spec.          *)
(***************************************************************************)
\* C26: a session with limit L other than -1 issues at most L - 1 status
\* queries over its lifetime, whatever the answers and however often
\* results() is called; with L = 1 results() raises the timeout without a
\* query.
C26_QueriesBelowLimit ==
    /\ limit # UNBOUNDED => queries <= limit - 1
    /\ (limit = 1 /\ pc = "done" /\ ~cancelled)
          => queries = 0 /\ outcome = RaiseOutcome(TimeoutError)
C26_Witness ==
    /\ limit = 3
    /\ calls = 2
    /\ pc = "done"
    /\ queries = limit - 1
    /\ outcome = RaiseOutcome(TimeoutError)

\* the caps of the model on the counter and on the queries leave room for
\* a whole results() call of this session
CapsLeaveRoom ==
    /\ current_repeat < MaxRepeat
    /\ 2 * limit - 1 <= MaxRepeat
    /\ limit - 1 <= MaxQueries
\* how a results() call may end
ProperEnd ==
    /\ pc = "done"
    /\ \/ outcome.kind = "return" /\ IsFinal(outcome.response)
       \/ outcome = RaiseOutcome(TimeoutError)

EntersCancelledAtLimit ==
    /\ pc = "entry"
    /\ pc' # "entry"
    /\ cancelled
    /\ LimitReached(limit, current_repeat + 1)

\* C28: cancellation takes precedence over the attempt limit: a frame that
\* starts with cancelled set where the next increment would reach the
\* limit returns the Cancelled response, not the timeout, and leaves the
\* counter as it is.
C28_CancelBeforeLimit ==
    [][EntersCancelledAtLimit
       => /\ pc' = "return"
          /\ outcome' = ReturnOutcome(CancelledResponse)
          /\ current_repeat' = current_repeat]_vars
C28_Witness ==
    /\ pc = "done"
    /\ queries = 0
    /\ cancelled
    /\ LimitReached(limit, current_repeat + 1)
    /\ outcome = ReturnOutcome(CancelledResponse)

\* the documents of the answers received with status 200, in order, and
\* the documents on_response_fetched was called with, in order
Received200 ==
    LET ok == SelectSeq(server, Is200)
    IN [i \in 1..Len(ok) |-> ReplyDoc(ok[i])]
FetchedDocs == [i \in 1..Len(fetched) |-> fetched[i].response]

\* C29: on_response_fetched is called only with responses received with
\* status 200, once for each of them, terminal ones included (the call
\* comes before the terminal test); it is not called for a failed query,
\* for another status, for the synthetic Cancelled response or for the
\* timeout.
C29_CallbackOnlyOn200 ==
    /\ ~on_response_fetched => fetched = <<>>
    /\ Len(fetched) <= Len(Received200)
    /\ (context = "stub" /\ on_response_fetched) => FetchedDocs = Received200
C29_Witness ==
    /\ context = "stub"
    /\ pc = "done"
    /\ Len(server) = 3
    /\ ~Is200(server[1])
    /\ Len(fetched) = 2
    /\ IsFinal(fetched[2].response)
    /\ outcome = ReturnOutcome(fetched[2].response)

\* C30: the login POST carries headers of its own, so that it does not
\* read api_token again: a call that looks the token up sends at most one
\* login request and does not recurse, whether the login succeeds or not.
C30_LoginDoesNotRecurse ==
    client.pc = "done"
    => /\ client.logins <= a_call.logins + 1
       /\ client.outcome.exc # "RecursionError"
C30_Witness ==
    /\ TokenNeeded
    /\ a_call.cfg
    /\ client.logins <= a_call.logins + 1
    /\ client.outcome.kind = "raise"

====
